---- MODULE Spec2Model ----
(***************************************************************************)
(* The Word add-in of LegalAssistantAI: the WordPanel edit flows (improve  *)
(* writing, proofread, draft clause), applyOperationToWord, the API client *)
(* (apiRequest), the host document they act on, and the credential        *)
(* storage (saveToken, getToken, clearToken).                              *)
(*                                                                         *)
(* Text is a sequence of one-character strings.  JavaScript's null and     *)
(* undefined are the value NULL.  The host (Word) is modelled at the level *)
(* of the calls the code makes: requests are queued by the code and take   *)
(* effect, atomically, when context.sync() is processed; a sync that       *)
(* carries at least one queued request may be rejected by the host, a sync *)
(* with an empty queue cannot.  Handlers interleave only at their awaits.  *)
(***************************************************************************)
EXTENDS Integers, Sequences, FiniteSets, TLC

\* ------------------------------------------------------------------ bounds
\* number of handler instances (button clicks) of one run of SpecConcurrent
MaxFlows == 2
\* longest operations array a response carries
MaxOps == 2
\* number of times the user changes the selection during one run
MaxSelChanges == 1
\* number of calls of saveToken and clearToken during one run of SpecAuth
MaxCalls == 3
\* number of handler calls of AuthPanel during one run of SpecPanel
MaxHandlers == 3
\* number of calls of loadDocuments during one run of SpecWeb
MaxLoads == 2

\* ------------------------------------------------------------------ values
NULL == <<"NULL">>

\* the handler instances
Flows == 1..MaxFlows

\* the handler instance of a run of Spec: a single click
OneClick == {1}

\* the document the add-in is opened on: "aB b"
InitialText == <<"a", "B", " ", "b">>

\* ------------------------------------------------------------------ strings
IsSpace(c) == c = " "

ToLower(c) == IF c = "A" THEN "a" ELSE IF c = "B" THEN "b" ELSE c

LowerAll(s) == [i \in 1..Len(s) |-> ToLower(s[i])]

RECURSIVE TrimStart(_)
TrimStart(s) == IF s # <<>> /\ IsSpace(Head(s)) THEN TrimStart(Tail(s)) ELSE s

RECURSIVE TrimEnd(_)
TrimEnd(s) ==
  IF s # <<>> /\ IsSpace(s[Len(s)]) THEN TrimEnd(SubSeq(s, 1, Len(s) - 1)) ELSE s

\* String.prototype.trim
Trim(s) == TrimEnd(TrimStart(s))

\* `${title}: ${body}`
WithTitle(title, body) == title \o <<":", " ">> \o body

\* ------------------------------------------------------------------ WordOperation
NoComment == [present |-> FALSE, title |-> NULL, body |-> <<>>]

Comment(title, body) == [present |-> TRUE, title |-> title, body |-> body]

Op(type, new_text, quote, highlight, comment) ==
  [type |-> type, new_text |-> new_text, quote |-> quote,
   highlight |-> highlight, comment |-> comment]

\* the operations a response is built from: one per branch of applyOperationToWord
OpPool ==
  { Op("replace_selection", <<"x">>, NULL, FALSE, Comment(<<"T">>, <<>>)),
    Op("replace_selection", NULL, NULL, FALSE, NoComment),
    Op("insert_after_selection", <<"x">>, NULL, FALSE, Comment(<<"T">>, <<"c">>)),
    Op("insert_before_selection", <<"x">>, NULL, FALSE, Comment(<<>>, <<"c">>)),
    Op("comment_on_quote", NULL, <<" ">>, TRUE, Comment(NULL, <<"c">>)),
    Op("comment_on_quote", NULL, NULL, FALSE, Comment(NULL, <<"c">>)),
    Op("comment_on_quote", NULL, <<"b">>, TRUE, Comment(NULL, <<"c">>)),
    Op("comment_on_quote", NULL, <<"b">>, FALSE, Comment(<<"T">>, <<"c">>)),
    Op("comment_on_quote", NULL, <<"z">>, TRUE, Comment(<<"T">>, <<"c">>)) }

InsertKinds == {"replace_selection", "insert_after_selection", "insert_before_selection"}

\* op.comment?.body (a truthy body)
HasCommentBody(op) == op.comment.present /\ op.comment.body # <<>>

\* a comment text that drops the title
CommentTextBodyOnly(op) == op.comment.body

\* op.comment.title ? `${title}: ${body}` : body
CommentText(op) ==
  IF op.comment.title # NULL /\ op.comment.title # <<>>
  THEN WithTitle(op.comment.title, op.comment.body)
  ELSE op.comment.body

\* (op.quote || "").trim()
QuoteOf(op) == IF op.quote = NULL THEN <<>> ELSE Trim(op.quote)

\* ------------------------------------------------------------------ API client
\* The HTTP answers of the Suggestion Source: 200 with an operations array of n
\* elements (or without the field), or a failure status with or without a JSON body
\* {detail}.  The array arrives whole; a handler reads element k only when it applies
\* it, so the model fixes the length here and draws element k from OpPool at that point.
OkResponses ==
  {[status |-> 200, detail |-> NULL, hasOperations |-> TRUE, n |-> n] : n \in 0..MaxOps}
  \cup {[status |-> 200, detail |-> NULL, hasOperations |-> FALSE, n |-> 0]}

FailStatuses == {401, 500}

FailResponses ==
  {[status |-> st, detail |-> d, hasOperations |-> FALSE, n |-> 0] :
     st \in FailStatuses, d \in {NULL, <<"denied">>}}

Responses == OkResponses \cup FailResponses

NoResponse == [status |-> 0, detail |-> NULL, hasOperations |-> FALSE, n |-> 0]

NoError == [name |-> "none", message |-> <<>>]

\* `Request failed (${res.status})`
RequestFailed(st) == <<"Request failed", IF st = 401 THEN "401" ELSE "500">>

\* apiRequest, the branch !res.ok: throw new Error(detail?.detail || `Request failed (..)`)
ApiError(res) ==
  [name |-> "Error",
   message |-> IF res.detail # NULL /\ res.detail # <<>> THEN res.detail
               ELSE RequestFailed(res.status)]

\* the error a rejected context.sync() throws
HostError == [name |-> "Error", message |-> <<"host">>]

\* (resp.operations || []).length
OperationCount(res) == IF res.hasOperations THEN res.n ELSE 0

\* ------------------------------------------------------------------ state
VARIABLES
  docText,        \* the document's text
  selection,      \* the user's selection: [start, len], 1-based
  highlights,     \* the ranges the host highlighted, in the order applied
  comments,       \* the comments the host attached, in the order attached
  trackRevisions, \* document.trackRevisions
  status,         \* WordPanel's status line
  flow,           \* the handler instances: one record per button click
  selChanges,     \* how often the user changed the selection
  token,          \* the credential in roamingSettings
  userEmail,      \* AuthPanel's userEmail (NULL: the login form is shown)
  cred,           \* the credential storage: Office's availability, the calls made
  authPanel,      \* AuthPanel's status line and its handler instances
  web             \* the web pages: localStorage's token, SearchPage, DocumentsPage

docVars == <<docText, selection, highlights, comments, trackRevisions>>
authVars == <<token, userEmail, cred, authPanel, web>>
wordVars == <<docText, selection, highlights, comments, trackRevisions, status, flow,
              selChanges>>
vars == <<docText, selection, highlights, comments, trackRevisions, status, flow,
          selChanges, token, userEmail, cred, authPanel, web>>

\* ------------------------------------------------------------------ host document
NoRange == [start |-> 0, len |-> 0]

RangeText(text, r) == SubSeq(text, r.start, r.start + r.len - 1)

Ranges(text) ==
  {[start |-> s, len |-> l] : s \in 1..(Len(text) + 1), l \in 0..Len(text)}

ValidRanges(text) == {r \in Ranges(text) : r.start + r.len - 1 <= Len(text)}

\* a word together with the space after it, as a double click selects it
WordWithSpace(text, r) ==
  /\ r.len >= 2
  /\ r.start = 1 \/ text[r.start - 1] = " "
  /\ \A i \in r.start..(r.start + r.len - 1) :
       (text[i] = " ") <=> (i = r.start + r.len - 1)

\* the selections the user makes: the whole text, the first character, a space, a
\* word with the space after it, or nothing (a caret at the start of the document)
UserRanges(text) ==
  {r \in ValidRanges(text) : \/ r.len = Len(text)
                             \/ r.len <= 1 /\ r.start = 1
                             \/ r.len = 1 /\ text[r.start] = " "
                             \/ WordWithSpace(text, r)}

\* range.search(q, {matchCase: false, matchWholeWord: false}): the start positions
\* of the occurrences of q inside range r
MatchStarts(text, r, q) ==
  {i \in r.start..(r.start + r.len - Len(q)) :
     LowerAll(SubSeq(text, i, i + Len(q) - 1)) = LowerAll(q)}

Min(S) == CHOOSE x \in S : \A y \in S : x <= y

\* results.items: the match ranges in document order
SearchItems(text, r, q) ==
  LET starts == MatchStarts(text, r, q)
      RECURSIVE InOrder(_)
      InOrder(S) == IF S = {} THEN <<>>
                    ELSE <<[start |-> Min(S), len |-> Len(q)]>> \o InOrder(S \ {Min(S)})
  IN  InOrder(starts)

\* text with the range r replaced by t
Splice(text, r, t) ==
  SubSeq(text, 1, r.start - 1) \o t \o SubSeq(text, r.start + r.len, Len(text))

\* range.insertText(t, location), applied to the range r
InsertedText(text, r, t, location) ==
  IF location = "replace" THEN Splice(text, r, t)
  ELSE IF location = "after" THEN Splice(text, [start |-> r.start + r.len, len |-> 0], t)
  ELSE Splice(text, [start |-> r.start, len |-> 0], t)

\* where the range r lies after range.insertText(t, location)
RangeAfterInsert(r, t, location) ==
  IF location = "replace" THEN [start |-> r.start, len |-> Len(t)]
  ELSE IF location = "after" THEN r
  ELSE [start |-> r.start + Len(t), len |-> r.len]

\* a range the host tracks (a search result), after `removed` characters at
\* position `at` were replaced by `inserted` characters
Tracked(r, at, removed, inserted) ==
  IF r = NoRange THEN r
  ELSE IF r.start >= at + removed
       THEN [start |-> r.start + inserted - removed, len |-> r.len]
  ELSE IF r.start + r.len <= at THEN r
  ELSE IF removed = 0 THEN [start |-> r.start, len |-> r.len + inserted]
  ELSE [start |-> at, len |-> inserted]

\* an insert that always goes after the selection
LocationAfter(type) == "after"

\* the Word.InsertLocation each operation type passes to range.insertText
Location(type) ==
  IF type = "replace_selection" THEN "replace"
  ELSE IF type = "insert_after_selection" THEN "after"
  ELSE "before"

\* ------------------------------------------------------------------ WordPanel
NoStatus == [mark |-> "", text |-> "", msg |-> <<>>, n |-> 0]

Status(mark, text) == [mark |-> mark, text |-> text, msg |-> <<>>, n |-> 0]

\* `<mark> <what> failed: ${e.message}`
Failed(text, e) == [mark |-> "fail", text |-> text, msg |-> e.message, n |-> 0]

\* `Added ${ops.length} comments`
Added(n) == [mark |-> "ok", text |-> "Added N comments", msg |-> <<>>, n |-> n]

InProgress(kind) ==
  IF kind = "getSelection" THEN Status("progress", "Reading selection...")
  ELSE IF kind = "insert" THEN Status("progress", "Inserting text...")
  ELSE IF kind = "improve" THEN Status("progress", "Improving writing (calling API)...")
  ELSE IF kind = "proofread" THEN Status("progress", "Proofreading selection (calling API)...")
  ELSE Status("progress", "Drafting clause (calling API)...")

FailedText(kind) ==
  IF kind \in {"getSelection", "insert"} THEN "Failed"
  ELSE IF kind = "improve" THEN "Improve writing failed"
  ELSE IF kind = "proofread" THEN "Proofread failed"
  ELSE "Draft clause failed"

AppliedStatus(kind) ==
  IF kind = "improve" THEN Status("ok", "Improve writing applied (tracked if enabled)")
  ELSE Status("ok", "Clause inserted (tracked if enabled)")

SelectionLoaded == Status("ok", "Selection loaded")
Inserted == Status("ok", "Inserted")
SelectFirst == Status("warn", "Please select some text first")
EnterRequest == Status("warn", "Enter a clause request first")
NoOperation == Status("fail", "No operation returned")
NoIssues == Status("ok", "No issues found")

NoOp == Op("none", NULL, NULL, FALSE, NoComment)

\* no request was sent to the Suggestion Source
NotSent == <<"not sent">>

\* what one call of applyOperationToWord did: the requests it issued to the host,
\* those its completed syncs carried, the parts of the document its syncs changed, the
\* number of syncs that completed, the range its search looked in and the number of
\* matches it returned, how the assignments to document.trackRevisions and to
\* found.font.highlightColor went ("none": not executed, "set", "threw"), and the
\* request the host rejected ("none": no sync was rejected)
NoCall ==
  [issued |-> {}, flushed |-> {}, mut |-> {}, syncs |-> 0, lookup |-> NoRange,
   matches |-> 0, track |-> "none", hl |-> "none", rejected |-> "none"]

\* One handler instance (one click).  selectedText is the handler's selectedText (for
\* draft clause: its contextText, NULL when undefined); reqRange is the selection
\* range that text was read from; sent is the selection text of the request body;
\* resp is the answer of the Suggestion Source; idx is
\* the position in the operations array of the operation being applied and op that
\* operation; queue holds the requests issued to the host and not yet synced; found is
\* results.items[0]; attempts has one entry per call of applyOperationToWord, in the
\* order of the calls, and call describes the latest of them; err is the error the
\* catch block received; final is the status the handler ended with.
IdleFlow ==
  [kind |-> "none", pc |-> "idle", clauseRequest |-> <<>>, selectedText |-> <<>>,
   reqRange |-> NoRange, sent |-> NotSent, resp |-> NoResponse, idx |-> 0, op |-> NoOp, queue |-> {},
   found |-> NoRange, attempts |-> <<>>, call |-> NoCall, err |-> NoError,
   final |-> NoStatus]

Attempt(i, result) == [idx |-> i, result |-> result]

Running(f) == flow[f].pc \notin {"idle", "done"}

\* a handler that returns without setting the status
FinishSilently(fl, st) == [fl EXCEPT !.pc = "done", !.queue = {}, !.found = NoRange]

\* the handler returns or its catch block ran: setStatus(st)
Finish(fl, st) == [fl EXCEPT !.pc = "done", !.final = st, !.queue = {}, !.found = NoRange]

\* the result of the call in progress
SetResult(attempts, result) == [attempts EXCEPT ![Len(attempts)].result = result]

\* the catch block of a handler: setStatus(`... failed: ${e.message}`)
Caught(fl, e) == Finish([fl EXCEPT !.err = e], Failed(FailedText(fl.kind), e))

\* the task pane on the document, nothing clicked yet
InitWord ==
  /\ docText = InitialText
  /\ selection = [start |-> 1, len |-> Len(InitialText)]
  /\ highlights = <<>>
  /\ comments = <<>>
  /\ trackRevisions = FALSE
  /\ status = NoStatus
  /\ flow = [f \in Flows |-> IdleFlow]
  /\ selChanges = 0

\* the credential storage: ready is whether Office.context.roamingSettings can be
\* used in this session (its calls throw when it cannot); calls has one entry per
\* call of saveToken and clearToken, in the order of the calls, with its promise's
\* state
NoCalls(ready) == [ready |-> ready, calls |-> <<>>]

\* AuthPanel after construction: useState("") for status, no handler running
NoHandlers == [status |-> "", handlers |-> <<>>]

\* no fetch made
NoFetch == [present |-> FALSE, token |-> <<>>, query |-> <<>>]

\* SearchPage after construction; pc, sent and last follow handleSearch: where it
\* stands, the token and query of its request, how the last one ended
NewSearchPage ==
  [query |-> <<>>, results |-> <<>>, loading |-> FALSE, error |-> "",
   searched |-> FALSE, route |-> "/search", pc |-> "idle", sent |-> NoFetch,
   last |-> "none", answer |-> <<>>]

\* DocumentsPage after construction: loading starts true; loads holds one record
\* per call of loadDocuments
NewDocumentsPage ==
  [documents |-> <<>>, loading |-> TRUE, error |-> "", route |-> "/documents",
   loads |-> <<>>]

\* the web application with access_token of localStorage holding t
NewWeb(t) == [token |-> t, search |-> NewSearchPage, docs |-> NewDocumentsPage]

\* a signed-in user
Init ==
  /\ InitWord
  /\ token = <<"t">>
  /\ userEmail = <<"u">>
  /\ cred = NoCalls(TRUE)
  /\ authPanel = NoHandlers
  /\ web = NewWeb(NULL)

\* ---- the user
\* the user selects another range of the document
UserSelect(r) ==
  /\ selChanges < MaxSelChanges
  /\ r \in UserRanges(docText)
  /\ r # selection
  /\ selection' = r
  /\ selChanges' = selChanges + 1
  /\ UNCHANGED <<docText, highlights, comments, trackRevisions, status, flow, authVars>>

\* a click on a button: the instances are numbered in the order of the clicks
CanStart(f) == flow[f].pc = "idle" /\ (IF f = 1 THEN TRUE ELSE flow[f - 1].pc # "idle")

\* runImproveWriting and the proofread handler up to their first await
StartSelectionFlow(f, kind) ==
  /\ CanStart(f)
  /\ kind \in {"improve", "proofread"}
  /\ status' = InProgress(kind)
  /\ flow' = [flow EXCEPT ![f] = [IdleFlow EXCEPT !.kind = kind, !.pc = "read"]]
  /\ UNCHANGED <<docVars, selChanges, authVars>>

\* a request body that carries the trimmed text
SelectionTextTrimmed(fl) == Trim(fl.selectedText)

\* the selection text of the request body: selection_text: selectionText of
\* improveWriting and proofreadSelection, context_text: contextText of draftClause
SelectionText(fl) == fl.selectedText

\* the handler calls the API client: the request leaves
SendRequest(fl) == [fl EXCEPT !.pc = "request", !.sent = SelectionText(fl)]

\* if (!clauseRequest.trim()) ... else draftClause(...)
DraftRequest(fl) ==
  IF Trim(fl.clauseRequest) = <<>> THEN Finish(fl, EnterRequest)
  ELSE SendRequest(fl)

\* the draft clause handler up to its first await
StartDraft(f, clauseRequest, useSelectionAsContext) ==
  /\ CanStart(f)
  /\ LET fl == [IdleFlow EXCEPT !.kind = "draft", !.clauseRequest = clauseRequest,
                                !.selectedText = NULL]
         nxt == IF useSelectionAsContext THEN [fl EXCEPT !.pc = "read"]
                ELSE DraftRequest(fl)
     IN  /\ flow' = [flow EXCEPT ![f] = nxt]
         /\ status' = IF nxt.pc = "done" THEN nxt.final ELSE InProgress("draft")
  /\ UNCHANGED <<docVars, selChanges, authVars>>

\* ---- the buttons "Get selection" and "Insert after selection"
\* the panel's insertText between two line breaks: `\n${insertText}\n`
InsertText == <<"\n", "h", "\n">>

\* getSelection and insertAfterSelection up to their await context.sync()
StartSimple(f, kind) ==
  /\ CanStart(f)
  /\ kind \in {"getSelection", "insert"}
  /\ status' = InProgress(kind)
  /\ flow' = [flow EXCEPT ![f] = [IdleFlow EXCEPT !.kind = kind, !.pc = "simple"]]
  /\ UNCHANGED <<docVars, selChanges, authVars>>

\* the sync of getSelection (setSelection(range.text): selectedText holds the panel's
\* selection text) or of insertAfterSelection, accepted by the host
SimpleSync(f) ==
  /\ flow[f].pc = "simple"
  /\ LET get == flow[f].kind = "getSelection"
         nxt == IF get
                THEN Finish([flow[f] EXCEPT !.selectedText = RangeText(docText, selection),
                                            !.reqRange = selection],
                            SelectionLoaded)
                ELSE Finish(flow[f], Inserted)
     IN  /\ flow' = [flow EXCEPT ![f] = nxt]
         /\ status' = nxt.final
         /\ docText' = IF get THEN docText
                       ELSE InsertedText(docText, selection, InsertText, "after")
  /\ UNCHANGED <<selection, highlights, comments, trackRevisions, selChanges, authVars>>

\* the host rejects that sync: setStatus(`Failed: ${e.message}`)
SimpleSyncFails(f) ==
  /\ flow[f].pc = "simple"
  /\ flow' = [flow EXCEPT ![f] = Caught(flow[f], HostError)]
  /\ status' = flow'[f].final
  /\ UNCHANGED <<docVars, selChanges, authVars>>

\* ---- reading the selection: Word.run(range.load("text"); await context.sync())
\* a handler without the test !selectedText.trim()
AfterReadNoTest(fl, text) ==
  IF fl.kind = "draft"
  THEN DraftRequest([fl EXCEPT !.selectedText =
                                 IF Trim(text) = <<>> THEN NULL ELSE Trim(text)])
  ELSE SendRequest([fl EXCEPT !.selectedText = text])

\* what the handler does with the text it read
AfterRead(fl, text) ==
  IF fl.kind = "draft"
  THEN DraftRequest([fl EXCEPT !.selectedText =
                                 IF Trim(text) = <<>> THEN NULL ELSE Trim(text)])
  ELSE IF Trim(text) = <<>> THEN Finish([fl EXCEPT !.selectedText = text], SelectFirst)
  ELSE SendRequest([fl EXCEPT !.selectedText = text])

ReadSelection(f) ==
  /\ flow[f].pc = "read"
  /\ LET nxt == AfterRead([flow[f] EXCEPT !.reqRange = selection],
                          RangeText(docText, selection))
     IN  /\ flow' = [flow EXCEPT ![f] = nxt]
         /\ status' = IF nxt.pc = "done" THEN nxt.final ELSE status
  /\ UNCHANGED <<docVars, selChanges, authVars>>

\* the host rejects the read
ReadSelectionFails(f) ==
  /\ flow[f].pc = "read"
  /\ flow' = [flow EXCEPT ![f] = Caught(flow[f], HostError)]
  /\ status' = flow'[f].final
  /\ UNCHANGED <<docVars, selChanges, authVars>>

\* ---- the answer of the Suggestion Source
\* the number of operations of a response the handler goes on to apply: improve
\* writing and draft clause take resp.operations?.[0], proofread takes all
BatchSize(kind, res) ==
  IF kind = "proofread" THEN OperationCount(res)
  ELSE IF OperationCount(res) = 0 THEN 0 ELSE 1

\* a handler without the test for an empty answer
AfterResponseNoTest(fl, res) == [fl EXCEPT !.idx = 1, !.pc = "apply"]

\* the handler after `await <request>` returned res
AfterResponse(fl, res) ==
  IF BatchSize(fl.kind, res) = 0
  THEN Finish(fl, IF fl.kind = "proofread" THEN NoIssues ELSE NoOperation)
  ELSE [fl EXCEPT !.idx = 1, !.pc = "apply"]

ApiRespond(f, res) ==
  /\ flow[f].pc = "request"
  /\ res \in Responses
  /\ LET fl == [flow[f] EXCEPT !.resp = res]
         nxt == IF res.status # 200 THEN Caught(fl, ApiError(res))
                ELSE AfterResponse(fl, res)
     IN  /\ flow' = [flow EXCEPT ![f] = nxt]
         /\ status' = IF nxt.pc = "done" THEN nxt.final ELSE status
  /\ UNCHANGED <<docVars, selChanges, authVars>>

\* ---- applyOperationToWord
\* a callback without the early return for an empty quote
IssuedFirstNoReturn(op) ==
  IF op.type \in InsertKinds
  THEN {"insertText"} \cup (IF HasCommentBody(op) THEN {"insertComment"} ELSE {})
  ELSE {"search"}

\* the requests the Word.run callback issues before its first await
IssuedFirst(op) ==
  IF op.type \in InsertKinds
  THEN {"insertText"} \cup (IF HasCommentBody(op) THEN {"insertComment"} ELSE {})
  ELSE IF QuoteOf(op) = <<>> THEN {}
  ELSE {"search"}

\* a callback that leaves when the assignment to trackRevisions throws
IssuedAfterTrackNoCatch(op, setTrack) == IF setTrack THEN IssuedFirst(op) ELSE {}

\* try { context.document.trackRevisions = true } catch { }: the callback goes on to
\* its requests whether or not the assignment threw
IssuedAfterTrack(op, setTrack) == IssuedFirst(op)

\* the callback up to its first await, for the operation op at flow[f].idx; setTrack:
\* the assignment to document.trackRevisions took effect (it is swallowed when it
\* throws)
ApplyIssue(f, op, setTrack) ==
  /\ flow[f].pc = "apply"
  /\ op \in OpPool
  /\ LET q == IssuedAfterTrack(op, setTrack)
     IN  flow' = [flow EXCEPT ![f] =
                    [@ EXCEPT !.pc = IF "search" \in q THEN "search" ELSE "sync",
                              !.op = op,
                              !.queue = q,
                              !.attempts = Append(@, Attempt(flow[f].idx, "pending")),
                              !.call = [NoCall EXCEPT
                                          !.issued = q,
                                          !.track = IF setTrack THEN "set" ELSE "threw"]]]
  /\ trackRevisions' = (trackRevisions \/ setTrack)
  /\ UNCHANGED <<docText, selection, highlights, comments, status, selChanges, authVars>>

\* a callback that highlights whatever the flag says
HighlightRequestAlways(op, setHighlight) == IF setHighlight THEN {"highlight"} ELSE {}

\* if (op.highlight) { try { found.font.highlightColor = "yellow" } catch { } }
HighlightRequest(op, setHighlight) ==
  IF op.highlight /\ setHighlight THEN {"highlight"} ELSE {}

\* a callback without the test results.items.length > 0
IssuedSecondNoTest(op, items, setHighlight) ==
  HighlightRequest(op, setHighlight)
  \cup (IF HasCommentBody(op) THEN {"insertComment"} ELSE {})

\* the requests issued after the search returned `items`; setHighlight: the
\* assignment to found.font.highlightColor took effect (swallowed when it throws)
IssuedSecond(op, items, setHighlight) ==
  IF items = <<>> THEN {}
  ELSE HighlightRequest(op, setHighlight)
       \cup (IF HasCommentBody(op) THEN {"insertComment"} ELSE {})

\* a sync that leaves the comment behind
SyncedWithoutComment(q) == q \ {"insertComment"}

\* the requests an await context.sync() hands to the host: all that are queued
Synced(q) == q

\* a callback that takes the last match
FoundLast(items) == items[Len(items)]

\* const found = results.items[0]
Found(items) == items[1]

\* the range the search of comment_on_quote looks in: context.document.getSelection(),
\* resolved by the host when the sync is processed
LookupRange(fl) == selection

\* the first await context.sync() of comment_on_quote: the range is resolved and
\* searched, then the callback runs up to its second await
SearchSync(f, setHighlight) ==
  /\ flow[f].pc = "search"
  /\ LET op == flow[f].op
         r == LookupRange(flow[f])
         items == SearchItems(docText, r, QuoteOf(op))
         q == IssuedSecond(op, items, setHighlight)
     IN  flow' = [flow EXCEPT ![f] =
                    [@ EXCEPT !.pc = "sync",
                              !.queue = q,
                              !.found = IF items = <<>> THEN NoRange ELSE Found(items),
                              !.call = [@ EXCEPT
                                          !.issued = @ \cup q,
                                          !.flushed = @ \cup Synced(flow[f].queue),
                                          !.syncs = @ + 1,
                                          !.lookup = r,
                                          !.matches = Len(items),
                                          !.hl = IF items = <<>> \/ ~op.highlight THEN "none"
                                                 ELSE IF setHighlight THEN "set"
                                                 ELSE "threw"]]]
  /\ UNCHANGED <<docVars, status, selChanges, authVars>>

\* a rejected sync that undoes what the batch did before
ApplyThrowsRollback(f, e, req) ==
  /\ flow' = [flow EXCEPT ![f] =
                Caught([flow[f] EXCEPT !.attempts = SetResult(@, "error"),
                                       !.call.rejected = req], e)]
  /\ status' = flow'[f].final
  /\ docText' = InitialText
  /\ highlights' = <<>>
  /\ comments' = <<>>
  /\ UNCHANGED <<selection, trackRevisions, selChanges, authVars>>

\* the host rejects the request req of a sync: context.sync() and with it
\* applyOperationToWord throw e, the handler's catch block runs
ApplyThrows(f, e, req) ==
  /\ flow' = [flow EXCEPT ![f] =
                Caught([flow[f] EXCEPT !.attempts = SetResult(@, "error"),
                                       !.call.rejected = req], e)]
  /\ status' = flow'[f].final
  /\ UNCHANGED <<docVars, selChanges, authVars>>

\* the host rejects the search
SearchFails(f) ==
  /\ flow[f].pc = "search"
  /\ ApplyThrows(f, HostError, "search")

\* the host rejects the queued mutation req
FinalSyncFails(f, req) ==
  /\ flow[f].pc = "sync"
  /\ req \in flow[f].queue
  /\ ApplyThrows(f, HostError, req)

\* a loop that skips an operation
SkipOperation(i) == i + 2

\* for (const op of ops) await applyOperationToWord(op): the position of the
\* operation after the one at i
NextOperation(i) == i + 1

\* a handler that stops after the first operation of a batch
AfterApplyFirstOnly(fl) ==
  Finish(fl, IF fl.kind = "proofread" THEN Added(OperationCount(fl.resp))
             ELSE AppliedStatus(fl.kind))

\* the handler after the apply of the operation at fl.idx returned
AfterApply(fl) ==
  IF fl.kind # "proofread" THEN Finish(fl, AppliedStatus(fl.kind))
  ELSE IF fl.idx < OperationCount(fl.resp)
       THEN [fl EXCEPT !.idx = NextOperation(@), !.pc = "apply", !.queue = {},
                       !.found = NoRange]
  ELSE Finish(fl, Added(OperationCount(fl.resp)))

\* the text range.insertText(op.new_text, ..) inserts when the host accepts it
TextOf(op) == IF op.new_text = NULL THEN <<>> ELSE op.new_text

\* a comment as the host attaches it: its text, its range, the text it is anchored to
Attached(text, r, body) == [text |-> body, range |-> r, anchor |-> RangeText(text, r)]

\* the last await context.sync() of applyOperationToWord, accepted by the host: the
\* queued mutations take effect (the range of an insert is resolved to the selection)
FinalSync(f) ==
  /\ flow[f].pc = "sync"
  /\ LET op == flow[f].op
         q == Synced(flow[f].queue)
         ins == "insertText" \in q
         loc == Location(op.type)
         t == TextOf(op)
         newText == IF ins THEN InsertedText(docText, selection, t, loc) ELSE docText
         newSel == IF ins THEN RangeAfterInsert(selection, t, loc) ELSE selection
         target == IF ins THEN newSel ELSE flow[f].found
         at == IF loc = "after" THEN selection.start + selection.len ELSE selection.start
         removed == IF loc = "replace" THEN selection.len ELSE 0
         newHl == IF "highlight" \in q THEN Append(highlights, target) ELSE highlights
         newCm == IF "insertComment" \in q
                  THEN Append(comments, Attached(newText, target, CommentText(op)))
                  ELSE comments
         mut == (IF newText # docText THEN {"text"} ELSE {})
                \cup (IF newHl # highlights THEN {"highlight"} ELSE {})
                \cup (IF newCm # comments THEN {"comment"} ELSE {})
         fl == [flow[f] EXCEPT !.attempts = SetResult(@, "ok"),
                               !.call = [@ EXCEPT !.mut = mut, !.syncs = @ + 1,
                                                  !.flushed = @ \cup q]]
         nxt == AfterApply(fl)
     IN  /\ docText' = newText
         /\ selection' = newSel
         /\ highlights' = newHl
         /\ comments' = newCm
         /\ flow' = [g \in Flows |->
                       IF g = f THEN nxt
                       ELSE IF ins /\ flow[g].pc = "sync"
                            THEN [flow[g] EXCEPT !.found = Tracked(@, at, removed, Len(t))]
                       ELSE flow[g]]
         /\ status' = IF nxt.pc = "done" THEN nxt.final ELSE status
  /\ UNCHANGED <<trackRevisions, selChanges, authVars>>

\* ------------------------------------------------------------------ credential storage
\* the token strings handed to saveToken
Tokens == {<<>>, <<"t">>, <<"u">>}

\* getToken: roamingSettings.get(TOKEN_KEY) || null, null when the call throws
GetToken ==
  IF ~cred.ready THEN NULL
  ELSE IF token = NULL \/ token = <<>> THEN NULL
  ELSE token

StorageCall(fn, t, result) == [fn |-> fn, t |-> t, result |-> result]

\* set(TOKEN_KEY, t) and saveAsync up to its return: the save is under way; a
\* throw of either call rejects the promise
SetAndSave(t) ==
  /\ Len(cred.calls) < MaxCalls
  /\ IF cred.ready
     THEN /\ token' = t
          /\ cred' = [cred EXCEPT !.calls = Append(@, StorageCall("saveToken", t, "pending"))]
     ELSE /\ token' = token
          /\ cred' = [cred EXCEPT !.calls = Append(@, StorageCall("saveToken", t, "rejected"))]

\* remove(TOKEN_KEY) and saveAsync up to its return
RemoveAndSave ==
  /\ Len(cred.calls) < MaxCalls
  /\ IF cred.ready
     THEN /\ token' = NULL
          /\ cred' = [cred EXCEPT !.calls =
                         Append(@, StorageCall("clearToken", NULL, "pending"))]
     ELSE /\ token' = token
          /\ cred' = [cred EXCEPT !.calls =
                         Append(@, StorageCall("clearToken", NULL, "rejected"))]

\* saveToken(t) of a caller outside the panel
SaveToken(t) ==
  /\ t \in Tokens
  /\ SetAndSave(t)
  /\ UNCHANGED <<wordVars, userEmail, authPanel, web>>

\* a clearToken that saves without removing the key
ClearTokenNoRemove ==
  /\ Len(cred.calls) < MaxCalls
  /\ cred' = [cred EXCEPT !.calls =
                 Append(@, StorageCall("clearToken", NULL,
                                       IF cred.ready THEN "pending" ELSE "rejected"))]
  /\ UNCHANGED <<wordVars, userEmail, token, authPanel, web>>

\* clearToken of a caller outside the panel
ClearToken ==
  /\ RemoveAndSave
  /\ UNCHANGED <<wordVars, userEmail, authPanel, web>>

\* ------------------------------------------------------------------ AuthPanel
\* one call of refreshMe, onLogin or onLogout: where it stands, the storage call it
\* awaits, whether it issued the me request, whether it set the logged-out UI
Handler(kind, pc, call) ==
  [kind |-> kind, pc |-> pc, call |-> call, meIssued |-> FALSE, uiCleared |-> FALSE]

\* what login() resolves to: an access_token, or a throw
LoginAnswers ==
  {[ok |-> FALSE, access_token |-> <<>>]} \cup
  {[ok |-> TRUE, access_token |-> t] : t \in Tokens}

\* refreshMe of handler h up to its await: no token, no request
RefreshMe(p, h) ==
  IF GetToken = NULL
  THEN [panel |-> [p EXCEPT !.handlers[h].pc = "done"], userEmail |-> NULL]
  ELSE [panel |-> [p EXCEPT !.handlers[h].pc = "me", !.handlers[h].meIssued = TRUE],
        userEmail |-> userEmail]

\* an onLogin that calls refreshMe without awaiting saveToken
RefreshWhileSaving(p, h, k) ==
  RefreshMe([p EXCEPT !.handlers[h].call = k], h)

\* onLogin at await saveToken(res.access_token), storage call k
AwaitSave(p, h, k) ==
  [panel |-> [p EXCEPT !.handlers[h].pc = "save", !.handlers[h].call = k],
   userEmail |-> userEmail]

\* the catch of onLogin
LoginFailed(p, h) ==
  [panel |-> [p EXCEPT !.status = "Login failed", !.handlers[h].pc = "done"],
   userEmail |-> userEmail]

\* what follows the settling of storage call k in the handler that awaits it:
\* onLogin goes on to refreshMe or to its catch, onLogout sets the logged-out UI
\* or ends in the rejection
AfterStorage(p, k, succeeded) ==
  LET waiting == {h \in DOMAIN p.handlers :
                    p.handlers[h].call = k /\ p.handlers[h].pc \in {"save", "clear"}}
  IN IF waiting = {} THEN [panel |-> p, userEmail |-> userEmail]
     ELSE LET h == CHOOSE x \in waiting : TRUE
          IN IF p.handlers[h].pc = "save"
             THEN IF succeeded THEN RefreshMe(p, h) ELSE LoginFailed(p, h)
             ELSE IF succeeded
                  THEN [panel |-> [p EXCEPT !.status = "Logged out",
                                            !.handlers[h].pc = "done",
                                            !.handlers[h].uiCleared = TRUE],
                        userEmail |-> NULL]
                  ELSE [panel |-> [p EXCEPT !.handlers[h].pc = "done"],
                        userEmail |-> userEmail]

\* the callback of saveAsync of call k: resolve() when res.status is Succeeded,
\* reject(res.error) otherwise, and the awaiting handler goes on
SaveAsyncDone(k, succeeded) ==
  /\ k \in DOMAIN cred.calls
  /\ cred.calls[k].result = "pending"
  /\ cred' = [cred EXCEPT !.calls[k].result =
                 IF succeeded THEN "resolved" ELSE "rejected"]
  /\ LET r == AfterStorage(authPanel, k, succeeded)
     IN /\ authPanel' = r.panel
        /\ userEmail' = r.userEmail
  /\ UNCHANGED <<wordVars, token, web>>

\* refreshMe called by the effect of the first render or by "Check session"
CheckSession ==
  /\ Len(authPanel.handlers) < MaxHandlers
  /\ LET h == Len(authPanel.handlers) + 1
         r == RefreshMe([authPanel EXCEPT
                           !.handlers = Append(@, Handler("refreshMe", "start", 0))], h)
     IN /\ authPanel' = r.panel
        /\ userEmail' = r.userEmail
  /\ UNCHANGED <<wordVars, token, cred, web>>

\* the me request of handler h answers: the email and "Logged in", or the catch
MeReturns(h, ok) ==
  /\ h \in DOMAIN authPanel.handlers
  /\ authPanel.handlers[h].pc = "me"
  /\ IF ok
     THEN /\ userEmail' = <<"u">>
          /\ authPanel' = [authPanel EXCEPT !.status = "Logged in",
                                            !.handlers[h].pc = "done"]
     ELSE /\ userEmail' = NULL
          /\ authPanel' = [authPanel EXCEPT !.status = "Session invalid",
                                            !.handlers[h].pc = "done"]
  /\ UNCHANGED <<wordVars, token, cred, web>>

\* onLogin up to await login(email, password); the form is rendered while
\* userEmail is null
OnLogin ==
  /\ userEmail = NULL
  /\ Len(authPanel.handlers) < MaxHandlers
  /\ authPanel' = [authPanel EXCEPT
                     !.status = "Logging in...",
                     !.handlers = Append(@, Handler("onLogin", "login", 0))]
  /\ UNCHANGED <<wordVars, token, userEmail, cred, web>>

\* login() of handler h answers: a throw goes to the catch, a token to saveToken
LoginReturns(h, res) ==
  /\ h \in DOMAIN authPanel.handlers
  /\ authPanel.handlers[h].pc = "login"
  /\ IF res.ok
     THEN /\ SetAndSave(res.access_token)
          /\ LET r == IF cred.ready
                      THEN AwaitSave(authPanel, h, Len(cred.calls) + 1)
                      ELSE LoginFailed([authPanel EXCEPT
                                          !.handlers[h].call = Len(cred.calls) + 1], h)
             IN /\ authPanel' = r.panel
                /\ userEmail' = r.userEmail
     ELSE /\ authPanel' = LoginFailed(authPanel, h).panel
          /\ UNCHANGED <<token, userEmail, cred>>
  /\ UNCHANGED <<wordVars, web>>

\* onLogout up to await clearToken(); the button is rendered while userEmail is set
OnLogout ==
  /\ userEmail # NULL
  /\ Len(authPanel.handlers) < MaxHandlers
  /\ RemoveAndSave
  /\ authPanel' = [authPanel EXCEPT
                     !.handlers = Append(@, Handler("onLogout",
                                                    IF cred.ready THEN "clear" ELSE "done",
                                                    Len(cred.calls) + 1))]
  /\ UNCHANGED <<wordVars, userEmail, web>>

\* ------------------------------------------------------------------ web pages
\* what the query box can hold
Queries == {<<>>, <<" ">>, <<"a">>}

\* the lists a response can carry
Lists == {<<>>, <<"r">>, <<"s">>}

\* what localStorage can hold under access_token
WebTokens == {NULL, <<>>, <<"t">>}

\* !token
NoWebToken(t) == t = NULL \/ t = <<>>

\* the answers of fetch: a status with a list or a detail; status 0 is a fetch
\* that rejects
Answers ==
  {[status |-> 200, list |-> l, detail |-> ""] : l \in Lists} \cup
  {[status |-> st, list |-> <<>>, detail |-> d] : st \in {401, 500}, d \in {"", "detail"}} \cup
  {[status |-> 0, list |-> <<>>, detail |-> "Failed to fetch"]}

\* err.message || fallback of the catch, for an answer that is not ok
Message(res, fallback) == IF res.detail = "" THEN fallback ELSE res.detail

\* a handler whose finally block is left out
FinallySkipped(page) == page

\* finally { setLoading(false) }
Finally(page) == [page EXCEPT !.loading = FALSE]

\* another tab, or the login page, writes access_token
StorageChanges(t) ==
  /\ t \in WebTokens
  /\ t # web.token
  /\ web' = [web EXCEPT !.token = t]
  /\ UNCHANGED <<wordVars, token, userEmail, cred, authPanel>>

\* onChange of the query box
SetQuery(q) ==
  /\ web.search.route = "/search"
  /\ q \in Queries
  /\ q # web.search.query
  /\ web' = [web EXCEPT !.search.query = q]
  /\ UNCHANGED <<wordVars, token, userEmail, cred, authPanel>>

\* handleSearch up to its await; the submit button is disabled while loading
HandleSearch ==
  /\ web.search.route = "/search"
  /\ ~web.search.loading
  /\ web' = [web EXCEPT !.search =
       IF Trim(@.query) = <<>>
       THEN [@ EXCEPT !.error = "Please enter a search query", !.last = "empty"]
       ELSE IF NoWebToken(web.token)
       THEN [@ EXCEPT !.route = "/login", !.last = "redirect"]
       ELSE [@ EXCEPT !.loading = TRUE, !.error = "", !.searched = FALSE,
                      !.pc = "fetch",
                      !.sent = [present |-> TRUE, token |-> web.token,
                                query |-> web.search.query]]]
  /\ UNCHANGED <<wordVars, token, userEmail, cred, authPanel>>

\* handleSearch from the answer of its fetch to its end
SearchResponds(res) ==
  /\ web.search.pc = "fetch"
  /\ res \in Answers
  /\ web' = [web EXCEPT !.search =
       Finally(
         IF res.status = 401
         THEN [@ EXCEPT !.route = "/login", !.pc = "idle", !.last = "unauthorized"]
         ELSE IF res.status # 200
         THEN [@ EXCEPT !.error = Message(res, "Search failed"), !.pc = "idle",
                        !.last = "failed"]
         ELSE [@ EXCEPT !.results = res.list, !.searched = TRUE, !.pc = "idle",
                        !.last = "ok", !.answer = res.list])]
  /\ UNCHANGED <<wordVars, token, userEmail, cred, authPanel>>

\* one call of loadDocuments: where it stands, the token of its fetch, how it ended
Load(pc, t, outcome) == [pc |-> pc, token |-> t, outcome |-> outcome]

\* loadDocuments up to its await, called by the effect of the first render and
\* after an upload or a deletion
LoadDocuments ==
  /\ web.docs.route = "/documents"
  /\ Len(web.docs.loads) < MaxLoads
  /\ web' = [web EXCEPT !.docs =
       IF NoWebToken(web.token)
       THEN [@ EXCEPT !.route = "/login",
                      !.loads = Append(@, Load("done", web.token, "redirect"))]
       ELSE [@ EXCEPT !.loads = Append(@, Load("fetch", web.token, "none"))]]
  /\ UNCHANGED <<wordVars, token, userEmail, cred, authPanel>>

\* loadDocuments of call h from the answer of its fetch to its end
DocumentsRespond(h, res) ==
  /\ h \in DOMAIN web.docs.loads
  /\ web.docs.loads[h].pc = "fetch"
  /\ res \in Answers
  /\ web' = [web EXCEPT !.docs =
       Finally(
         IF res.status = 401
         THEN [@ EXCEPT !.route = "/login", !.loads[h].pc = "done",
                        !.loads[h].outcome = "unauthorized"]
         ELSE IF res.status # 200
         THEN [@ EXCEPT !.error = IF res.status = 0 THEN res.detail
                                  ELSE "Failed to load documents",
                        !.loads[h].pc = "done", !.loads[h].outcome = "failed"]
         ELSE [@ EXCEPT !.documents = res.list, !.loads[h].pc = "done",
                        !.loads[h].outcome = "ok"])]
  /\ UNCHANGED <<wordVars, token, userEmail, cred, authPanel>>

\* ------------------------------------------------------------------ specification
\* the steps of the handler instances F, their operations drawn from ops and the
\* answers of the Suggestion Source from responses
FlowNext(F, ops, responses) ==
  \/ \E f \in F, kind \in {"improve", "proofread"} : StartSelectionFlow(f, kind)
  \/ \E f \in F, req \in {<<>>, <<"r">>}, useSel \in BOOLEAN : StartDraft(f, req, useSel)
  \/ \E f \in F : ReadSelection(f)
  \/ \E f \in F : ReadSelectionFails(f)
  \/ \E f \in F, res \in responses : ApiRespond(f, res)
  \/ \E f \in F, op \in ops, setTrack \in BOOLEAN : ApplyIssue(f, op, setTrack)
  \/ \E f \in F, setHighlight \in BOOLEAN : SearchSync(f, setHighlight)
  \/ \E f \in F : SearchFails(f)
  \/ \E f \in F : FinalSync(f)
  \/ \E f \in F, req \in {"insertText", "highlight", "insertComment"} :
       FinalSyncFails(f, req)

UserNext == \E r \in Ranges(docText) : UserSelect(r)

\* one click, every operation and every answer
\* the steps of the two buttons that call no API
SimpleNext(F) ==
  \/ \E f \in F, kind \in {"getSelection", "insert"} : StartSimple(f, kind)
  \/ \E f \in F : SimpleSync(f)
  \/ \E f \in F : SimpleSyncFails(f)

Next == UserNext \/ FlowNext(OneClick, OpPool, Responses) \/ SimpleNext(OneClick)

Spec == Init /\ [][Next]_vars

\* a host call or a request that is under way returns or throws
Returns(F) ==
  \E f \in F :
    \/ ReadSelection(f) \/ ReadSelectionFails(f)
    \/ \E res \in Responses : ApiRespond(f, res)
    \/ \E op \in OpPool, setTrack \in BOOLEAN : ApplyIssue(f, op, setTrack)
    \/ \E setHighlight \in BOOLEAN : SearchSync(f, setHighlight)
    \/ SearchFails(f)
    \/ FinalSync(f)
    \/ \E req \in {"insertText", "highlight", "insertComment"} : FinalSyncFails(f, req)
    \/ SimpleSync(f) \/ SimpleSyncFails(f)

\* Spec under the assumption that every host call and every request returns or throws
SpecLive == Spec /\ WF_vars(Returns(OneClick))

\* clicks while a handler is running: the buttons stay enabled.  The operations are
\* those of ConcurrentOps (a replacement and a comment on a quote that is found) and
\* the answers carry at most one of them.
ConcurrentOps ==
  {op \in OpPool : \/ op.type = "replace_selection" /\ op.new_text = <<"x">>
                   \/ op.quote = <<"b">> /\ op.highlight}

ConcurrentResponses == {res \in Responses : res.n <= 1}

NextConcurrent == UserNext \/ FlowNext(Flows, ConcurrentOps, ConcurrentResponses)

SpecConcurrent == Init /\ [][NextConcurrent]_vars

\* the credential storage on its own: any session, any order of calls
InitAuth ==
  /\ InitWord
  /\ token \in {NULL, <<"t">>}
  /\ userEmail = NULL
  /\ cred \in {NoCalls(ready) : ready \in BOOLEAN}
  /\ authPanel = NoHandlers
  /\ web = NewWeb(NULL)

NextAuth ==
  \/ \E t \in Tokens : SaveToken(t)
  \/ ClearToken
  \/ \E k \in 1..MaxCalls, succeeded \in BOOLEAN : SaveAsyncDone(k, succeeded)

SpecAuth == InitAuth /\ [][NextAuth]_vars

\* the panel alone: its three handlers and the answers they wait for
NextPanel ==
  \/ CheckSession
  \/ OnLogin
  \/ OnLogout
  \/ \E h \in 1..MaxHandlers, ok \in BOOLEAN : MeReturns(h, ok)
  \/ \E h \in 1..MaxHandlers, res \in LoginAnswers : LoginReturns(h, res)
  \/ \E k \in 1..MaxCalls, succeeded \in BOOLEAN : SaveAsyncDone(k, succeeded)

SpecPanel == InitAuth /\ [][NextPanel]_vars

\* the two web pages, each rendered once, and localStorage
InitWeb ==
  /\ InitWord
  /\ token = NULL
  /\ userEmail = NULL
  /\ cred = NoCalls(TRUE)
  /\ authPanel = NoHandlers
  /\ web \in {NewWeb(t) : t \in WebTokens}

NextWeb ==
  \/ \E t \in WebTokens : StorageChanges(t)
  \/ \E q \in Queries : SetQuery(q)
  \/ HandleSearch
  \/ \E res \in Answers : SearchResponds(res)
  \/ LoadDocuments
  \/ \E h \in 1..MaxLoads, res \in Answers : DocumentsRespond(h, res)

SpecWeb == InitWeb /\ [][NextWeb]_vars

TypeOK ==
  /\ selection \in ValidRanges(docText)
  /\ \A f \in Flows : flow[f].found = NoRange \/ flow[f].found \in ValidRanges(docText)

\* ------------------------------------------------------------------ properties
LastAttempt(f) == flow[f].attempts[Len(flow[f].attempts)]

\* the latest call of applyOperationToWord of instance f has returned or thrown
Returned(f) == flow[f].attempts # <<>> /\ LastAttempt(f).result # "pending"

AttemptedAt(f) == {flow[f].attempts[k].idx : k \in DOMAIN flow[f].attempts}

\* C1: when applying operation k of a proofread batch of N operations fails,
\* operations 1..k-1 have been applied and synced and operations k+1..N are still
\* attempted
C1_NoShortCircuit ==
  \A f \in Flows :
    (flow[f].kind = "proofread" /\ flow[f].pc = "done"
       /\ \E k \in DOMAIN flow[f].attempts : flow[f].attempts[k].result = "error")
    => /\ \A k \in DOMAIN flow[f].attempts :
            flow[f].attempts[k].result = "error"
            => \A i \in 1..(k - 1) : flow[f].attempts[i].result = "ok"
       /\ AttemptedAt(f) = 1..OperationCount(flow[f].resp)

\* C2: apply of a replace or insert operation whose new_text is null fails with an
\* InvalidOperation error and changes nothing in the document
C2_NullTextIsInvalidOperation ==
  \A f \in Flows :
    (Returned(f) /\ flow[f].op.type \in InsertKinds /\ flow[f].op.new_text = NULL)
    => /\ LastAttempt(f).result = "error"
       /\ flow[f].err.name = "InvalidOperation"
       /\ flow[f].call.mut = {}

\* C3: every operation of the returned sequence is passed to the Applier exactly
\* once, in each of the three flows
C3_EachOperationAppliedOnce ==
  \A f \in Flows :
    (flow[f].pc = "done" /\ flow[f].resp.status = 200)
    => \A i \in 1..OperationCount(flow[f].resp) :
         Cardinality({k \in DOMAIN flow[f].attempts : flow[f].attempts[k].idx = i}) = 1

\* C4: the quote of a comment_on_quote operation is looked up in the selection range
\* as it was when the batch was requested
C4_LookupInRequestedRange ==
  \A f \in Flows :
    (flow[f].op.type = "comment_on_quote" /\ flow[f].call.lookup # NoRange
       /\ flow[f].reqRange # NoRange)
    => flow[f].call.lookup = flow[f].reqRange

\* C5: at most one edit flow is between its start and its final status at any time
C5_OneFlowAtATime == Cardinality({f \in Flows : Running(f)}) <= 1

\* C6: within one batch the operations are applied in the order of the operations
\* array, one after another: the call for an operation is made only after the call
\* for the one before it has synced and returned
C6_Sequential ==
  \A f \in Flows :
    /\ \A k \in DOMAIN flow[f].attempts :
         /\ flow[f].attempts[k].idx = k
         /\ k < Len(flow[f].attempts) => flow[f].attempts[k].result = "ok"
    /\ flow[f].pc \in {"apply", "search", "sync"}
       => flow[f].idx = Len(flow[f].attempts) + (IF flow[f].pc = "apply" THEN 1 ELSE 0)
    /\ flow[f].queue # {} => LastAttempt(f).result = "pending"

C6_Witness ==
  \E f \in Flows :
    /\ flow[f].kind = "proofread"
    /\ Len(flow[f].attempts) = 2
    /\ LastAttempt(f).result = "ok"
    /\ flow[f].call.mut # {}
    /\ Len(docText) = Len(InitialText) + 2

EmptyQuote(op) == op.type = "comment_on_quote" /\ QuoteOf(op) = <<>>

NoMatch(f) ==
  /\ flow[f].op.type = "comment_on_quote"
  /\ QuoteOf(flow[f].op) # <<>>
  /\ flow[f].call.syncs >= 1
  /\ flow[f].call.matches = 0

\* C8: apply of a comment_on_quote operation whose quote has no match in the
\* selection adds no highlight and no comment, still syncs, and returns success
C8_NoMatchIsNoOp ==
  \A f \in Flows :
    NoMatch(f)
    => /\ flow[f].call.issued = {"search"}
       /\ flow[f].queue = {}
       /\ Returned(f) => /\ LastAttempt(f).result = "ok"
                         /\ flow[f].call.mut = {}
                         /\ flow[f].call.syncs = 2

C8_Witness ==
  \E f \in Flows :
    /\ NoMatch(f)
    /\ Returned(f)
    /\ flow[f].op.highlight
    /\ HasCommentBody(flow[f].op)
    /\ highlights = <<>>
    /\ comments = <<>>

\* C9: the error of a 401 answer can be told apart from the error of every other
\* failed request
C9_UnauthorizedDistinguishable ==
  \A f \in Flows :
    (flow[f].pc = "done" /\ flow[f].resp.status = 401)
    => \A other \in FailResponses :
         other.status # 401 => ApiError(other) # flow[f].err

\* C10: a flow whose request fails with 401 applies no operation and triggers
\* re-authentication (the login form is shown or the credential is dropped); it does
\* not end in the status of a generic failure
C10_UnauthorizedTriggersReauth ==
  \A f \in Flows :
    (flow[f].pc = "done" /\ flow[f].resp.status = 401)
    => /\ flow[f].attempts = <<>>
       /\ userEmail = NULL \/ token = NULL
       /\ flow[f].final.mark # "fail"

\* instance f read the selection of an improve-writing or proofread flow and the text
\* it read is empty (or only whitespace)
ReadEmpty(f) ==
  /\ flow[f].kind \in {"improve", "proofread"}
  /\ flow[f].reqRange # NoRange
  /\ Trim(flow[f].selectedText) = <<>>

\* C11: an improve-writing or proofread flow that reads an empty selection stops with
\* a warning status, sends no request to the Suggestion Source and applies no
\* operation
C11_EmptySelectionRefused ==
  \A f \in Flows :
    ReadEmpty(f)
    => /\ flow[f].pc = "done"
       /\ flow[f].final = SelectFirst
       /\ flow[f].final.mark = "warn"
       /\ flow[f].sent = NotSent
       /\ flow[f].resp = NoResponse
       /\ flow[f].attempts = <<>>

C11_Witness ==
  \E f \in Flows :
    /\ ReadEmpty(f)
    /\ flow[f].kind = "proofread"
    /\ flow[f].selectedText = <<>>
    /\ flow[f].reqRange = [start |-> 1, len |-> 0]
    /\ status = SelectFirst
    /\ docText = InitialText

LastCall == cred.calls[Len(cred.calls)]

\* C13: for every token string t, once saveToken(t) has succeeded and no clearToken
\* (and no other saveToken) was called after it, getToken returns exactly t; once
\* clearToken has succeeded and no saveToken was called after it, getToken returns
\* null
C13_RoundTrip ==
  cred.calls # <<>>
  => /\ (LastCall.fn = "saveToken" /\ LastCall.result = "resolved")
          => GetToken = LastCall.t
     /\ (LastCall.fn = "clearToken" /\ LastCall.result = "resolved")
          => GetToken = NULL

\* C13, amended: the same for every non-empty token string t; after saveToken("")
\* getToken returns null
C13_RoundTripNonEmpty ==
  cred.calls # <<>>
  => /\ (LastCall.fn = "saveToken" /\ LastCall.result = "resolved")
          => GetToken = (IF LastCall.t = <<>> THEN NULL ELSE LastCall.t)
     /\ (LastCall.fn = "clearToken" /\ LastCall.result = "resolved")
          => GetToken = NULL

C13_Witness ==
  /\ Len(cred.calls) = 3
  /\ cred.calls[1] = StorageCall("saveToken", <<"t">>, "resolved")
  /\ cred.calls[2] = StorageCall("clearToken", NULL, "resolved")
  /\ cred.calls[3] = StorageCall("saveToken", <<"u">>, "resolved")
  /\ GetToken = <<"u">>

IsPrefix(s, t) == Len(s) <= Len(t) /\ SubSeq(t, 1, Len(s)) = s

\* the latest call of applyOperationToWord of instance f fails in this step
FailsNow(f) ==
  /\ flow[f].attempts # <<>>
  /\ LastAttempt(f).result = "pending"
  /\ Len(flow'[f].attempts) = Len(flow[f].attempts)
  /\ flow'[f].attempts[Len(flow'[f].attempts)].result = "error"

\* C14: no operation of a batch is attempted more than once, after a failed call the
\* handler makes no further call, and a step in which a call fails leaves the text,
\* the highlights and the comments as the earlier operations left them; comments and
\* highlights are never taken away
C14_NoRetryNoRollback ==
  [][ /\ \A f \in Flows :
           /\ \A i \in 1..MaxOps :
                Cardinality({k \in DOMAIN flow'[f].attempts :
                               flow'[f].attempts[k].idx = i}) <= 1
           /\ (Returned(f) /\ LastAttempt(f).result = "error")
                => flow'[f].attempts = flow[f].attempts
           /\ FailsNow(f)
                => /\ docText' = docText
                   /\ highlights' = highlights
                   /\ comments' = comments
      /\ IsPrefix(highlights, highlights')
      /\ IsPrefix(comments, comments') ]_vars

C14_Witness ==
  \E f \in Flows :
    /\ flow[f].kind = "proofread"
    /\ flow[f].pc = "done"
    /\ Len(flow[f].attempts) = 2
    /\ flow[f].attempts[1].result = "ok"
    /\ flow[f].attempts[2].result = "error"
    /\ docText # InitialText
    /\ Len(comments) = 1

\* the search of the latest call of instance f found the quote
Matched(f) ==
  /\ flow[f].op.type = "comment_on_quote"
  /\ flow[f].call.matches > 0

\* applying the highlight failed in the latest call of instance f: the assignment to
\* found.font.highlightColor threw, or the host rejected the queued highlight when
\* the sync handed it over; nothing else of the call was rejected
HighlightFailed(f) ==
  /\ Matched(f)
  /\ flow[f].op.highlight
  /\ flow[f].call.hl = "threw" \/ flow[f].call.rejected = "highlight"
  /\ flow[f].call.rejected \in {"none", "highlight"}

\* C15: when applying the highlight to the matched range fails, the operation still
\* attaches its comment when it has a comment body, still syncs, and returns success
C15_HighlightFailureSwallowed ==
  \A f \in Flows :
    (HighlightFailed(f) /\ Returned(f))
    => /\ LastAttempt(f).result = "ok"
       /\ flow[f].call.syncs = 2
       /\ HasCommentBody(flow[f].op) => "comment" \in flow[f].call.mut

C17_SyncedBeforeReturn ==
  \A f \in Flows :
    (Returned(f) /\ LastAttempt(f).result = "ok")
    => /\ flow[f].call.syncs >= 1
       /\ flow[f].call.flushed = flow[f].call.issued
       /\ flow[f].queue = {}
       /\ flow[f].op.type = "comment_on_quote" /\ QuoteOf(flow[f].op) # <<>>
            => flow[f].call.syncs = 2

C17_Witness ==
  \E f \in Flows :
    /\ Returned(f)
    /\ LastAttempt(f).result = "ok"
    /\ flow[f].call.flushed = {"search", "highlight", "insertComment"}
    /\ flow[f].call.syncs = 2
    /\ flow[f].call.mut = {"highlight", "comment"}

\* the comment the host attached last
LastComment == comments[Len(comments)]

\* C18: a call that returned success attached a comment exactly when its operation
\* has a comment with a non-empty body (and, for comment_on_quote, the quote was
\* found); the text of that comment is title, ": ", body when the title is present and
\* non-empty, and body alone otherwise -- for comment_on_quote and for the replace and
\* insert kinds
C18_CommentText ==
  \A f \in Flows :
    (Returned(f) /\ LastAttempt(f).result = "ok")
    => LET c == flow[f].op.comment
           hasBody == c.present /\ c.body # <<>>
           hasTitle == c.title # NULL /\ c.title # <<>>
       IN  /\ "comment" \in flow[f].call.mut
             <=> (hasBody /\ (flow[f].op.type \in InsertKinds \/ Matched(f)))
           /\ "comment" \in flow[f].call.mut
              => /\ comments # <<>>
                 /\ hasTitle => LastComment.text = c.title \o <<":", " ">> \o c.body
                 /\ ~hasTitle => LastComment.text = c.body

C18_Witness ==
  /\ Len(comments) = 2
  /\ comments[1].text = <<"c">>
  /\ comments[2].text = <<"T", ":", " ", "c">>
  /\ \E f \in Flows :
       /\ Len(flow[f].attempts) = 2
       /\ Returned(f)
       /\ LastAttempt(f).result = "ok"
       /\ Matched(f)
       /\ docText = <<"x">> \o InitialText

\* q occurs in text at position i, letter case ignored, word boundaries ignored
OccursAt(text, i, q) ==
  /\ i >= 1
  /\ i + Len(q) - 1 <= Len(text)
  /\ \A j \in 1..Len(q) : ToLower(text[i + j - 1]) = ToLower(q[j])

\* the first occurrence of q that lies inside the range r, when there is one
IsFirstMatch(text, r, q, m) ==
  /\ m.len = Len(q)
  /\ m.start >= r.start
  /\ m.start + m.len <= r.start + r.len
  /\ OccursAt(text, m.start, q)
  /\ \A i \in r.start..(m.start - 1) : ~OccursAt(text, i, q)

OkCalls(f) == {k \in DOMAIN flow[f].attempts : flow[f].attempts[k].result = "ok"}

\* C19: a comment_on_quote call whose quote was found highlights and comments one
\* range only, the first occurrence of the quote inside the range it searched (the
\* selection), letter case and word boundaries ignored; no call adds more than one
\* highlight or more than one comment
C19_FirstMatchOnly ==
  \A f \in OneClick :
    /\ Len(highlights) <= Cardinality(OkCalls(f))
    /\ Len(comments) <= Cardinality(OkCalls(f))
    /\ Matched(f)
       => LET q == QuoteOf(flow[f].op)
              r == flow[f].call.lookup
          IN  /\ flow[f].pc = "sync" => IsFirstMatch(docText, r, q, flow[f].found)
              /\ "highlight" \in flow[f].call.mut
                   => IsFirstMatch(docText, r, q, highlights[Len(highlights)])
              /\ "comment" \in flow[f].call.mut
                   => /\ IsFirstMatch(docText, r, q, LastComment.range)
                      /\ LowerAll(LastComment.anchor) = LowerAll(q)

C19_Witness ==
  \E f \in OneClick :
    /\ Matched(f)
    /\ flow[f].call.lookup = [start |-> 1, len |-> Len(InitialText)]
    /\ flow[f].call.matches = 2
    /\ QuoteOf(flow[f].op) = <<"b">>
    /\ highlights = <<[start |-> 2, len |-> 1]>>
    /\ Len(comments) = 1
    /\ LastComment.anchor = <<"B">>
    /\ docText = InitialText

\* C20: a call that returned success highlighted the matched range if and only if
\* the highlight flag of its operation is true; an operation with highlight false
\* never changes the highlighting, and nothing is highlighted when the quote is not
\* found
C20_HighlightIffFlag ==
  \A f \in Flows :
    (Returned(f) /\ LastAttempt(f).result = "ok")
    => ("highlight" \in flow[f].call.mut <=> (Matched(f) /\ flow[f].op.highlight))

\* C20, amended: a highlight is requested only for a matched range of an operation
\* whose highlight flag is true; a call that returned success highlighted the matched
\* range if and only if the flag is true and the assignment of the highlight colour
\* did not throw
C20_HighlightOnlyIfFlag ==
  \A f \in Flows :
    flow[f].attempts # <<>>
    => /\ "highlight" \in flow[f].call.issued
            => (Matched(f) /\ flow[f].op.highlight /\ flow[f].call.hl = "set")
       /\ "highlight" \in flow[f].call.mut => "highlight" \in flow[f].call.flushed
       /\ (Returned(f) /\ LastAttempt(f).result = "ok")
            => ("highlight" \in flow[f].call.mut
                  <=> (Matched(f) /\ flow[f].op.highlight /\ flow[f].call.hl = "set"))

C20_Witness ==
  \E f \in Flows :
    /\ Len(flow[f].attempts) = 2
    /\ Returned(f)
    /\ LastAttempt(f).result = "ok"
    /\ Matched(f)
    /\ ~flow[f].op.highlight
    /\ Len(highlights) = 1
    /\ Len(comments) = 2
    /\ comments[1].range = highlights[1]
    /\ comments[2].range = highlights[1]

\* instance f is applying its batch
Applying(f) == flow[f].pc \in {"apply", "search", "sync"}

\* the batch of instance f has ended by having applied its last operation
AppliedAll(f) ==
  /\ flow[f].pc = "done"
  /\ Len(flow[f].attempts) = BatchSize(flow[f].kind, flow[f].resp)
  /\ \A k \in DOMAIN flow[f].attempts : flow[f].attempts[k].result = "ok"
  /\ flow[f].final.mark = "ok"

\* the batch of instance f has ended at its first host error
EndedAtError(f) ==
  /\ flow[f].pc = "done"
  /\ flow[f].attempts # <<>>
  /\ LastAttempt(f).result = "error"
  /\ \A k \in 1..(Len(flow[f].attempts) - 1) : flow[f].attempts[k].result = "ok"
  /\ flow[f].err = HostError
  /\ flow[f].final.mark = "fail"

\* C21: a batch that has begun applying leaves that phase only by having applied its
\* last operation or at its first host error, and, when every host call returns or
\* throws, it always reaches one of the two
C21_BatchRunsToEnd ==
  /\ [][\A f \in OneClick :
          (Applying(f) /\ ~Applying(f)') => (AppliedAll(f)' \/ EndedAtError(f)')]_vars
  /\ \A f \in OneClick : Applying(f) ~> (AppliedAll(f) \/ EndedAtError(f))

C21_Witness ==
  \E f \in OneClick :
    /\ flow[f].kind = "proofread"
    /\ AppliedAll(f)
    /\ Len(flow[f].attempts) = 2
    /\ status = Added(2)

\* the marks of a terminal status: success, failure, warning
TerminalMarks == {"ok", "fail", "warn"}

\* C26: every handler of the Word panel (get selection, insert, improve writing,
\* proofread, draft clause) that was started ends, when every host call and every
\* request returns or throws; it ends with a status that carries the success, failure
\* or warning mark, which is the status the panel then shows, never the in-progress
\* status set at its start
C26_FlowsEndWithTerminalStatus ==
  /\ \A f \in OneClick :
       [](flow[f].pc = "done"
            => /\ flow[f].final.mark \in TerminalMarks
               /\ flow[f].final # InProgress(flow[f].kind)
               /\ status = flow[f].final)
  /\ \A f \in OneClick : Running(f) ~> flow[f].pc = "done"

C26_Witness ==
  \E f \in OneClick :
    /\ flow[f].kind = "insert"
    /\ flow[f].pc = "done"
    /\ status = Inserted
    /\ docText = InitialText \o InsertText

\* the call of instance f for a replace or insert operation with a text returns
\* success in this step
InsertReturns(f) ==
  /\ flow[f].pc = "sync"
  /\ flow[f].op.type \in InsertKinds
  /\ flow[f].op.new_text # NULL
  /\ Len(flow'[f].attempts) = Len(flow[f].attempts)
  /\ flow'[f].attempts[Len(flow'[f].attempts)].result = "ok"

\* C22: a successful replace_selection with new_text t makes the content of the
\* selection range exactly t and leaves the text before and after the selection as it
\* was; insert_before_selection and insert_after_selection keep the content of the
\* selection and put exactly t directly before or directly after it
C22_InsertExactly ==
  [][\A f \in OneClick :
       InsertReturns(f)
       => LET t == flow[f].op.new_text
              before == SubSeq(docText, 1, selection.start - 1)
              content == SubSeq(docText, selection.start,
                                selection.start + selection.len - 1)
              after == SubSeq(docText, selection.start + selection.len, Len(docText))
              type == flow[f].op.type
          IN  /\ type = "replace_selection"
                   => /\ docText' = before \o t \o after
                      /\ RangeText(docText', selection') = t
              /\ type = "insert_before_selection"
                   => /\ docText' = before \o t \o content \o after
                      /\ RangeText(docText', selection') = content
              /\ type = "insert_after_selection"
                   => /\ docText' = before \o content \o t \o after
                      /\ RangeText(docText', selection') = content]_vars

C22_Witness ==
  \E f \in OneClick :
    /\ Returned(f)
    /\ LastAttempt(f).result = "ok"
    /\ flow[f].op.type = "replace_selection"
    /\ flow[f].selectedText = <<"a", "B", " ">>
    /\ docText = <<"x", "b">>
    /\ RangeText(docText, selection) = <<"x">>

\* C24: the replace_selection operation of an improve-writing flow replaces the
\* range the flow read its selection text from, also when the user changed the
\* selection while the request was in flight
C24_ReplacesRangeRead ==
  [][\A f \in OneClick :
       (flow[f].kind = "improve" /\ flow[f].op.type = "replace_selection"
          /\ InsertReturns(f))
       => /\ selection = flow[f].reqRange
          /\ docText' = SubSeq(docText, 1, flow[f].reqRange.start - 1)
                        \o flow[f].op.new_text
                        \o SubSeq(docText, flow[f].reqRange.start + flow[f].reqRange.len,
                                  Len(docText))]_vars

\* C27: when a proofread batch has ended without error, the N of its status
\* "Added N comments" is the number of comments the batch attached
C27_AddedCountsComments ==
  \A f \in OneClick :
    (flow[f].kind = "proofread" /\ flow[f].pc = "done" /\ flow[f].final.text = Added(0).text)
    => flow[f].final.n = Len(comments)

\* the answer to instance f carried no operation
EmptyAnswer(f) ==
  /\ flow[f].resp.status = 200
  /\ OperationCount(flow[f].resp) = 0

\* C28: a flow whose answer carries no operation (an empty operations array or none)
\* never calls applyOperationToWord and changes nothing in the document; proofread
\* ends with "No issues found", improve writing and draft clause with "No operation
\* returned"
C28_EmptyAnswerNoMutation ==
  \A f \in OneClick :
    EmptyAnswer(f)
    => /\ flow[f].pc = "done"
       /\ flow[f].attempts = <<>>
       /\ flow[f].call = NoCall
       /\ docText = InitialText /\ highlights = <<>> /\ comments = <<>>
       /\ flow[f].final = (IF flow[f].kind = "proofread"
                           THEN Status("ok", "No issues found")
                           ELSE Status("fail", "No operation returned"))
       /\ status = flow[f].final

C28_Witness ==
  \E f \in OneClick :
    /\ EmptyAnswer(f)
    /\ ~flow[f].resp.hasOperations
    /\ flow[f].kind = "draft"
    /\ status = NoOperation

\* C23: credential persistence is awaited before the caller proceeds: an onLogin
\* has issued its me request only when its saveToken has resolved, an onLogin
\* whose saveToken was rejected has ended without a me request, and an onLogout
\* has set the logged-out UI only when its clearToken has resolved
C23_PersistenceAwaited ==
  \A h \in DOMAIN authPanel.handlers :
    LET x == authPanel.handlers[h]
    IN /\ (x.kind = "onLogin" /\ x.meIssued) =>
            cred.calls[x.call].result = "resolved"
       /\ (x.kind = "onLogin" /\ x.call # 0 /\ x.pc # "save") =>
            IF cred.calls[x.call].result = "rejected"
            THEN ~x.meIssued /\ x.pc = "done"
            ELSE cred.calls[x.call].result = "resolved"
       /\ (x.kind = "onLogout" /\ x.uiCleared) =>
            cred.calls[x.call].result = "resolved"
       /\ (x.kind = "onLogout" /\ x.pc = "done" /\ ~x.uiCleared) =>
            cred.calls[x.call].result = "rejected"

\* a run in which an onLogin went on to its me request after the save, another
\* ended in a rejected save, and an onLogout set the logged-out UI
C23_Witness ==
  /\ \E h \in DOMAIN authPanel.handlers :
       authPanel.handlers[h].kind = "onLogin" /\ authPanel.handlers[h].meIssued
  /\ \E h \in DOMAIN authPanel.handlers :
       authPanel.handlers[h].kind = "onLogout" /\ authPanel.handlers[h].uiCleared
  /\ \E k \in DOMAIN cred.calls : cred.calls[k].result = "rejected"

\* C25: AuthPanel shows a signed-in user (userEmail non-null) only while a token
\* is stored, under every interleaving of login, logout and session check
C25_SignedInOnlyWithToken == userEmail # NULL => GetToken # NULL

\* a fetch of the search page or of the documents page carried no token
FetchWithoutToken(w) ==
  \/ w.search.sent.present /\ NoWebToken(w.search.sent.token)
  \/ \E h \in DOMAIN w.docs.loads :
       w.docs.loads[h].outcome # "redirect" /\ NoWebToken(w.docs.loads[h].token)

\* a search or a load that made a fetch has ended
FetchEnded(page) == page.pc = "idle" /\ page.last \in {"ok", "failed", "unauthorized"}

LoadEnded(page) ==
  \E h \in DOMAIN page.loads :
    page.loads[h].pc = "done" /\ page.loads[h].outcome # "redirect"

\* this step is the 401 answer of a search
SearchUnauthorized ==
  /\ web.search.pc = "fetch"
  /\ web'.search.pc = "idle"
  /\ web'.search.last = "unauthorized"

\* this step is the 401 answer of load h
LoadUnauthorized(h) ==
  /\ h \in DOMAIN web.docs.loads
  /\ web.docs.loads[h].pc = "fetch"
  /\ web'.docs.loads[h].outcome = "unauthorized"

C30_PanelOnlyAfterSuccess ==
  /\ (web.search.route = "/search" /\ web.search.searched) =>
       (web.search.last = "ok" /\ web.search.results = web.search.answer)
  /\ web.search.last \in {"failed", "empty", "unauthorized"} =>
       ~(web.search.searched /\ web.search.error # "")

====
